---------------------------- MODULE Spec2Model ----------------------------
(***************************************************************************)
(* Model of Acts::SpacePointBuilder<DoubleHitSpacePoint,                   *)
(* DoubleHitSpacePointConfig> (Core/src/Tools/DoubleHitSpacePointBuilder). *)
(*                                                                         *)
(* Hits are strip measurements on planar surfaces with a Cartesian         *)
(* segmentation.  clusterSpacePoints groups the hits of one surface,       *)
(* addHits pairs front and back clusters into space point candidates and   *)
(* calculateSpacePoints solves each candidate's position.                  *)
(*                                                                         *)
(* Numbers.  A double is modelled by an exact rational <<n, d>> with d > 0 *)
(* in lowest terms; <<1, 0>> is an infinity (of either sign) and <<0, 0>>  *)
(* is NaN, the two results of an IEEE division by zero.  Coordinates are   *)
(* integers, in a length unit in which every strip end is integral.        *)
(***************************************************************************)
EXTENDS Integers, Sequences, FiniteSets, TLC

VARIABLES
    spacePoints,   \* the caller's storage: std::vector<DoubleHitSpacePoint>
    call           \* the last call: its name, its arguments and what it returned

vars == <<spacePoints, call>>

----------------------------------------------------------------------------
(* Bounds of the model *)

\* the longest hit collection handed to clusterSpacePoints on its own
MaxHits == 3
\* the grids of the clustering check have up to MaxBinsX x MaxBinsY cells
MaxBinsX == 3
MaxBinsY == 2
\* the longest hit collection handed to addHits, per surface
MaxModuleHits == 2
\* the storage holds at most MaxStorage candidates
MaxStorage == 2

----------------------------------------------------------------------------
(* Doubles as exact rationals *)

Abs(i) == IF i < 0 THEN -i ELSE i

Sign(i) == IF i < 0 THEN -1 ELSE IF i > 0 THEN 1 ELSE 0

RECURSIVE GCD(_, _)
GCD(a, b) == IF b = 0 THEN a ELSE GCD(b, a % b)

NaN == <<0, 0>>
Inf == <<1, 0>>

\* the double n / d of two integers; x / 0 is an infinity and 0 / 0 is NaN
Frac(n, d) ==
    IF d = 0 THEN <<Abs(Sign(n)), 0>>
    ELSE LET g == GCD(Abs(n), Abs(d))
         IN  <<Sign(d) * (n \div g), Abs(d) \div g>>

Num(i) == <<i, 1>>

IsFin(x) == x[2] # 0

XNeg(x) == <<-x[1], x[2]>>

XAbs(x) == <<Abs(x[1]), x[2]>>

XAdd(x, y) ==
    IF x = NaN \/ y = NaN THEN NaN
    ELSE IF ~IsFin(x) /\ ~IsFin(y) THEN NaN   \* signs unknown: never relied on
    ELSE IF ~IsFin(x) \/ ~IsFin(y) THEN Inf
    ELSE Frac(x[1] * y[2] + y[1] * x[2], x[2] * y[2])

XSub(x, y) == XAdd(x, XNeg(y))

XMul(x, y) ==
    IF x = NaN \/ y = NaN THEN NaN
    ELSE IF ~IsFin(x) \/ ~IsFin(y)
         THEN IF x[1] = 0 \/ y[1] = 0 THEN NaN ELSE Inf
    ELSE Frac(x[1] * y[1], x[2] * y[2])

XDiv(x, y) ==
    IF x = NaN \/ y = NaN THEN NaN
    ELSE IF ~IsFin(x) THEN (IF IsFin(y) THEN Inf ELSE NaN)
    ELSE IF ~IsFin(y) THEN Num(0)
    ELSE Frac(x[1] * y[2], x[2] * y[1])

\* x < y and x <= y of doubles: FALSE as soon as one side is NaN.  An
\* infinity is only ever compared through its absolute value.
XLt(x, y) ==
    IF x = NaN \/ y = NaN THEN FALSE
    ELSE IF ~IsFin(y) THEN IsFin(x)
    ELSE IF ~IsFin(x) THEN FALSE
    ELSE x[1] * y[2] < y[1] * x[2]

XLe(x, y) ==
    IF x = NaN \/ y = NaN THEN FALSE
    ELSE IF ~IsFin(y) THEN TRUE
    ELSE IF ~IsFin(x) THEN FALSE
    ELSE x[1] * y[2] <= y[1] * x[2]

XGt(x, y) == XLt(y, x)

----------------------------------------------------------------------------
(* Acts::Vector3D.  Strip ends are integer vectors; a solved position is a  *)
(* vector of rationals.                                                     *)

VAdd(u, v) == <<u[1] + v[1], u[2] + v[2], u[3] + v[3]>>

VSub(u, v) == <<u[1] - v[1], u[2] - v[2], u[3] - v[3]>>

VScale(k, u) == <<k * u[1], k * u[2], k * u[3]>>

Dot(u, v) == u[1] * v[1] + u[2] * v[2] + u[3] * v[3]

Cross(u, v) == <<u[2] * v[3] - u[3] * v[2],
                 u[3] * v[1] - u[1] * v[3],
                 u[1] * v[2] - u[2] * v[1]>>

\* the mean of two vectors, component by component; the length unit makes
\* every mean the code takes of strip ends and bin centres integral
VMean(u, v) == <<(u[1] + v[1]) \div 2, (u[2] + v[2]) \div 2, (u[3] + v[3]) \div 2>>

\* u + x * v for a double x
VAxpy(u, x, v) == <<XAdd(Num(u[1]), XMul(x, Num(v[1]))),
                    XAdd(Num(u[2]), XMul(x, Num(v[2]))),
                    XAdd(Num(u[3]), XMul(x, Num(v[3])))>>

\* 0.5 * (u + x * v)
VHalfAxpy(u, x, v) ==
    LET w == VAxpy(u, x, v)
    IN  <<XDiv(w[1], Num(2)), XDiv(w[2], Num(2)), XDiv(w[3], Num(2))>>

\* Acts::Vector3D::Zero(3)
Zero3 == <<Num(0), Num(0), Num(0)>>

----------------------------------------------------------------------------
(* The geometry the builder reads through the surface of a hit              *)
(* (Surface::localToGlobal, CartesianSegmentation::binUtility and           *)
(* BinningData::boundaries, bins and searchLocal).                          *)
(*                                                                          *)
(* A surface is a record [layer, module, nx, ny]: module number `module` of *)
(* a layer, a plane with nx x ny equal bins.                                *)
(* The bins are narrow (Pitch) along the axis with more bins and long       *)
(* (StripLength) along the other one, and the grid is centred on the local  *)
(* origin of module 1.  The front layer lies in z = FrontZ with its local   *)
(* axes along the global x and y; the back layer lies in z = BackZ, turned  *)
(* by 45 degrees (its local unit is 1/sqrt(2) of the global one, so that    *)
(* the images of its bin corners are integral).                             *)

Pitch == 4
StripLength == 8
\* the strip modules of the two layers have ModuleStrips x 1 bins
ModuleStrips == 3
FrontZ == 0
BackZ == 4

Surface(layer, module, nx, ny) ==
    [layer |-> layer, module |-> module, nx |-> nx, ny |-> ny]

\* binningData(hit)[0].bins() and binningData(hit)[1].bins()
BinsX(s) == s.nx
BinsY(s) == s.ny

CellX(s) == IF s.nx > s.ny THEN Pitch ELSE StripLength
CellY(s) == IF s.nx > s.ny THEN StripLength ELSE Pitch

\* binData[0].boundaries()[i] and binData[1].boundaries()[j], ascending
BoundariesX(s, i) == CellX(s) * i - (CellX(s) * s.nx) \div 2
BoundariesY(s, j) == CellY(s) * j - (CellY(s) * s.ny) \div 2

\* sur.localToGlobal(local, mom, global); the modules of a layer lie side by
\* side along their local x
LocalToGlobal(s, loc) ==
    LET x == loc[1] + (s.module - 1) * CellX(s) * s.nx
    IN  IF s.layer = "front" THEN <<x, loc[2], FrontZ>>
        ELSE <<x - loc[2], x + loc[2], BackZ>>

\* A hit (PlanarModuleCluster const*): id is the identity of the pointer,
\* unique within one hit collection; the measurement lies at the centre of
\* bin (binX, binY) of its surface.  nullptr is the hit with id 0.
Hit(id, s, bx, by) == [id |-> id, surf |-> s, binX |-> bx, binY |-> by]

nullptr == [id |-> 0]

\* localCoords(hit)
LocalCoords(h) ==
    <<(BoundariesX(h.surf, h.binX) + BoundariesX(h.surf, h.binX + 1)) \div 2,
      (BoundariesY(h.surf, h.binY) + BoundariesY(h.surf, h.binY + 1)) \div 2>>

\* globalCoords(hit)
GlobalCoords(h) == LocalToGlobal(h.surf, LocalCoords(h))

\* binData[k].searchLocal(local): the bin that holds the coordinate x, of
\* `bins` bins of width `cell` from the boundary `low` on
SearchLocal(low, cell, bins, x) ==
    CHOOSE i \in 0..(bins - 1) : low + cell * i <= x /\ x < low + cell * (i + 1)

\* binOfHit(hit)
BinOfHit(h) ==
    LET loc == LocalCoords(h)
    IN  <<SearchLocal(BoundariesX(h.surf, 0), CellX(h.surf), BinsX(h.surf), loc[1]),
          SearchLocal(BoundariesY(h.surf, 0), CellY(h.surf), BinsY(h.surf), loc[2])>>

----------------------------------------------------------------------------
(* sortHits and clusterSpacePoints *)

\* sortHits: the matrix of hits, bins[iX][iY], as a function on the bins;
\* the empty matrix, <<>>, when a hit lies on another surface than hits[0].
\* A later hit of a bin replaces an earlier one.
RECURSIVE FillBins(_, _, _)
FillBins(hits, iHits, bins) ==
    IF iHits > Len(hits) THEN bins
    ELSE IF hits[iHits].surf # hits[1].surf THEN <<>>
    ELSE FillBins(hits, iHits + 1,
                  [bins EXCEPT ![BinOfHit(hits[iHits])] = hits[iHits]])

SortHits(hits) ==
    LET s == hits[1].surf
    IN  FillBins(hits, 1,
                 [b \in (0..(BinsX(s) - 1)) \X (0..(BinsY(s) - 1)) |-> nullptr])

\* a scan step that does not push the lone hit of the last bin of a line
ScanStep_NoLineEndPush(st, cell, atLineEnd) ==
    IF cell # nullptr /\ st.cluster[1] = nullptr
    THEN [st EXCEPT !.cluster = <<cell, st.cluster[2]>>]
    ELSE IF st.cluster[1] # nullptr
    THEN [cluster  |-> <<cell, cell>>,
          clusters |-> Append(st.clusters, <<st.cluster[1], cell>>)]
    ELSE st

\* One pass of the body of the two scan loops of clusterSpacePoints on the
\* bin `cell`; atLineEnd is iX == bins.size() - 1 (iY == bins[0].size() - 1
\* in the exchanged loops).  st is [cluster, clusters].
ScanStep(st, cell, atLineEnd) ==
    IF cell # nullptr /\ st.cluster[1] = nullptr
    THEN IF atLineEnd
         THEN [cluster  |-> <<cell, nullptr>>,
               clusters |-> Append(st.clusters, <<cell, nullptr>>)]
         ELSE [st EXCEPT !.cluster = <<cell, st.cluster[2]>>]
    ELSE IF st.cluster[1] # nullptr
    THEN [cluster  |-> <<cell, cell>>,
          clusters |-> Append(st.clusters, <<st.cluster[1], cell>>)]
    ELSE st

\* the k-th bin (k = 0, 1, ...) the loops visit: with more bins along X the
\* inner loop runs over iX, else over iY
ScanCell(nx, ny, k) ==
    IF nx > ny THEN <<k % nx, k \div nx>> ELSE <<k \div ny, k % ny>>

ScanLineEnd(nx, ny, k) ==
    IF nx > ny THEN k % nx = nx - 1 ELSE k % ny = ny - 1

RECURSIVE Scan(_, _, _, _, _)
Scan(bins, nx, ny, k, st) ==
    IF k >= nx * ny THEN st.clusters
    ELSE Scan(bins, nx, ny, k + 1,
              ScanStep(st, bins[ScanCell(nx, ny, k)], ScanLineEnd(nx, ny, k)))

\* a clusterSpacePoints that does not give up on the empty matrix of sortHits
\* and makes every hit a cluster instead
ClusterSpacePoints_NoSurfaceCheck(hits, performClustering) ==
    IF Len(hits) = 1 THEN << <<hits[1], nullptr>> >>
    ELSE IF performClustering /\ SortHits(hits) # <<>>
    THEN Scan(SortHits(hits), BinsX(hits[1].surf), BinsY(hits[1].surf), 0,
              [cluster |-> <<nullptr, nullptr>>, clusters |-> <<>>])
    ELSE [i \in 1..Len(hits) |-> <<hits[i], nullptr>>]

\* a clusterSpacePoints without the easy exit on a single hit
ClusterSpacePoints_NoEasyExit(hits, performClustering) ==
    IF performClustering
    THEN IF SortHits(hits) = <<>> THEN <<>>
         ELSE Scan(SortHits(hits), BinsX(hits[1].surf), BinsY(hits[1].surf), 0,
                   [cluster |-> <<nullptr, nullptr>>, clusters |-> <<>>])
    ELSE [i \in 1..Len(hits) |-> <<hits[i], nullptr>>]

\* clusterSpacePoints(hits, performClustering), for a hit collection that
\* is not empty (addHits, its caller, returns before on an empty one)
ClusterSpacePoints(hits, performClustering) ==
    IF Len(hits) = 1 THEN << <<hits[1], nullptr>> >>
    ELSE IF performClustering
    THEN LET bins == SortHits(hits)
             s    == hits[1].surf
         IN  IF bins = <<>> THEN <<>>
             ELSE Scan(bins, BinsX(s), BinsY(s), 0,
                       [cluster |-> <<nullptr, nullptr>>, clusters |-> <<>>])
    ELSE [i \in 1..Len(hits) |-> <<hits[i], nullptr>>]

----------------------------------------------------------------------------
(* DoubleHitSpacePointConfig.  Lengths are in the unit of the coordinates,  *)
(* squared angles in milliradian^2, the two tolerances are doubles.         *)

Config(diffDist, diffTheta2, diffPhi2, vertex, stripLengthTolerance, stripLengthGapTolerance, usePerpProj, clusterFrontHits, clusterBackHits) ==
    [diffDist                |-> diffDist,
     diffTheta2              |-> diffTheta2,
     diffPhi2                |-> diffPhi2,
     vertex                  |-> vertex,
     stripLengthTolerance    |-> stripLengthTolerance,
     stripLengthGapTolerance |-> stripLengthGapTolerance,
     usePerpProj             |-> usePerpProj,
     clusterFrontHits        |-> clusterFrontHits,
     clusterBackHits         |-> clusterBackHits]

----------------------------------------------------------------------------
(* Angles.  Vector3D::phi() and theta() are std::atan2 of the components;   *)
(* the model computes atan2 in integer milliradians, from the octant and    *)
(* the approximation atan(t) = t * (pi/4 + 0.273 * (1 - t)) on [0, 1].      *)

RECURSIVE ISqrtIn(_, _, _)
ISqrtIn(v, lo, hi) ==
    IF hi - lo <= 1 THEN lo
    ELSE LET mid == (lo + hi) \div 2
         IN  IF mid * mid <= v THEN ISqrtIn(v, mid, hi) ELSE ISqrtIn(v, lo, mid)

\* the integer part of the square root of v
ISqrt(v) == ISqrtIn(v, 0, IF v < 46340 THEN v + 1 ELSE 46340)

\* atan(p / q) for 0 <= p <= q, q > 0
AtanUnit(p, q) == (p * (785 * q + 273 * (q - p))) \div (q * q)

\* std::atan2(y, x)
Atan2(y, x) ==
    IF x = 0 /\ y = 0 THEN 0
    ELSE LET ax   == Abs(x)
             ay   == Abs(y)
             base == IF ay <= ax THEN AtanUnit(ay, ax) ELSE 1571 - AtanUnit(ax, ay)
             pos  == IF x >= 0 THEN base ELSE 3142 - base
         IN  IF y >= 0 THEN pos ELSE -pos

\* Vector3D::phi(): atan2(y, x)
Phi(v) == Atan2(v[2], v[1])

\* Vector3D::theta(): atan2(perp, z), with the transverse length kept to 1/16
Theta(v) == Atan2(ISqrt(256 * (v[1] * v[1] + v[2] * v[2])), 16 * v[3])

----------------------------------------------------------------------------
(* differenceOfHits, clusterPoint and addHits *)

\* a differenceOfHits without the gate on the distance
DifferenceOfHits_NoDistanceGate(pos1, pos2, cfg) ==
    LET phi1       == Phi(VSub(pos1, cfg.vertex))
        theta1     == Theta(VSub(pos1, cfg.vertex))
        phi2       == Phi(VSub(pos2, cfg.vertex))
        theta2     == Theta(VSub(pos2, cfg.vertex))
        diffTheta2 == (theta1 - theta2) * (theta1 - theta2)
        diffPhi2   == (phi1 - phi2) * (phi1 - phi2)
    IN  IF diffTheta2 > cfg.diffTheta2 THEN -1
        ELSE IF diffPhi2 > cfg.diffPhi2 THEN -1
        ELSE diffTheta2 + diffPhi2

\* differenceOfHits(pos1, pos2, cfg): -1 when a gate fails, else the sum of
\* the squared angle differences
DifferenceOfHits(pos1, pos2, cfg) ==
    LET d          == VSub(pos1, pos2)
        phi1       == Phi(VSub(pos1, cfg.vertex))
        theta1     == Theta(VSub(pos1, cfg.vertex))
        phi2       == Phi(VSub(pos2, cfg.vertex))
        theta2     == Theta(VSub(pos2, cfg.vertex))
        diffTheta2 == (theta1 - theta2) * (theta1 - theta2)
        diffPhi2   == (phi1 - phi2) * (phi1 - phi2)
    IN  \* (pos1 - pos2).norm() > cfg->diffDist, with both sides squared
        IF cfg.diffDist < 0 \/ Dot(d, d) > cfg.diffDist * cfg.diffDist THEN -1
        ELSE IF diffTheta2 > cfg.diffTheta2 THEN -1
        ELSE IF diffPhi2 > cfg.diffPhi2 THEN -1
        ELSE diffTheta2 + diffPhi2

\* clusterPoint(cluster)
ClusterPoint(cluster) ==
    IF cluster[2] # nullptr
    THEN VMean(GlobalCoords(cluster[1]), GlobalCoords(cluster[2]))
    ELSE GlobalCoords(cluster[1])

\* std::numeric_limits<double>::max(): above every sum of squared angles
DblMax == 2147483647

\* the inner loop of addHits over the back clusters from index iClustersBack
\* on: the index of the closest one, Len(clustersBack) + 1 if none passes
RECURSIVE ClosestBack(_, _, _, _, _, _)
ClosestBack(clusterPointFront, clustersBack, cfg, iClustersBack, diffMin, clusterMin) ==
    IF iClustersBack > Len(clustersBack) THEN clusterMin
    ELSE LET currentDiff == DifferenceOfHits(clusterPointFront,
                                ClusterPoint(clustersBack[iClustersBack]), cfg)
         IN  IF currentDiff < diffMin /\ currentDiff >= 0
             THEN ClosestBack(clusterPointFront, clustersBack, cfg,
                              iClustersBack + 1, currentDiff, iClustersBack)
             ELSE ClosestBack(clusterPointFront, clustersBack, cfg,
                              iClustersBack + 1, diffMin, clusterMin)

\* DoubleHitSpacePoint: the two clusters and the position, which starts as
\* the zero vector that calculateSpacePoints takes for "not calculated".
\* solved is a history field, not a member of the struct: whether a
\* calculateSpacePoints call has stored a position in the candidate.
SpacePoint(front, back) ==
    [hitModuleFront |-> front,
     hitModuleBack  |-> back,
     spacePoint     |-> Zero3,
     solved         |-> FALSE]

\* the outer loop of addHits over the front clusters from iClustersFront on
RECURSIVE MatchFrom(_, _, _, _, _)
MatchFrom(storage, clustersFront, clustersBack, cfg, iClustersFront) ==
    IF iClustersFront > Len(clustersFront) THEN storage
    ELSE LET clusterMin == ClosestBack(ClusterPoint(clustersFront[iClustersFront]),
                                       clustersBack, cfg, 1, DblMax,
                                       Len(clustersBack) + 1)
         IN  MatchFrom(IF clusterMin < Len(clustersBack) + 1
                       THEN Append(storage,
                                   SpacePoint(clustersFront[iClustersFront],
                                              clustersBack[clusterMin]))
                       ELSE storage,
                       clustersFront, clustersBack, cfg, iClustersFront + 1)

\* addHits(storage, hitsFront, hitsBack, cfg): the clusters it computes (none
\* once it has returned) and the storage it leaves
AddHitsRun(storage, hitsFront, hitsBack, cfg) ==
    LET clustersFront == IF hitsFront = <<>> \/ hitsBack = <<>> THEN <<>>
                         ELSE ClusterSpacePoints(hitsFront, cfg.clusterFrontHits)
        clustersBack  == IF clustersFront = <<>> THEN <<>>
                         ELSE ClusterSpacePoints(hitsBack, cfg.clusterBackHits)
    IN  [clustersFront |-> clustersFront,
         clustersBack  |-> clustersBack,
         spacePoints   |-> IF clustersFront = <<>> \/ clustersBack = <<>>
                           THEN storage
                           ELSE MatchFrom(storage, clustersFront, clustersBack,
                                          cfg, 1)]

\* the action: addHits(spacePoints, hitsFront, hitsBack, cfg)
AddHits(hitsFront, hitsBack, cfg) ==
    \E run \in {AddHitsRun(spacePoints, hitsFront, hitsBack, cfg)} :
        /\ Len(run.spacePoints) <= MaxStorage
        /\ spacePoints' = run.spacePoints
        /\ call' = [op            |-> "addHits",
                    hitsFront     |-> hitsFront,
                    hitsBack      |-> hitsBack,
                    cfg           |-> cfg,
                    clustersFront |-> run.clustersFront,
                    clustersBack  |-> run.clustersBack,
                    before        |-> Len(spacePoints)]

----------------------------------------------------------------------------
(* endsOfStrip, endsOfCluster, calcPerpProj, recoverSpacePoint and          *)
(* calculateSpacePoints                                                     *)

\* the ends of the strip of bin <<binX, binY>> of surface s: the bin found by
\* searchLocal, its longer side and the images of the two ends
StripEnds(s, bin) ==
    LET midX == (BoundariesX(s, bin[1]) + BoundariesX(s, bin[1] + 1)) \div 2
        midY == (BoundariesY(s, bin[2]) + BoundariesY(s, bin[2] + 1)) \div 2
    IN  IF BoundariesX(s, bin[1] + 1) - BoundariesX(s, bin[1])
               < BoundariesY(s, bin[2] + 1) - BoundariesY(s, bin[2])
        THEN <<LocalToGlobal(s, <<midX, BoundariesY(s, bin[2] + 1)>>),
               LocalToGlobal(s, <<midX, BoundariesY(s, bin[2])>>)>>
        ELSE <<LocalToGlobal(s, <<BoundariesX(s, bin[1]), midY>>),
               LocalToGlobal(s, <<BoundariesX(s, bin[1] + 1), midY>>)>>

\* endsOfStrip(hit): <<top end, bottom end>> of the strip, global
EndsOfStrip(hit) == StripEnds(hit.surf, BinOfHit(hit))

\* the mean of both ends of two strips
MeanEnds(ends1, ends2) ==
    <<VMean(ends1[1], ends2[1]), VMean(ends1[2], ends2[2])>>

\* endsOfCluster(cluster)
EndsOfCluster(cluster) ==
    IF cluster[2] # nullptr
    THEN MeanEnds(EndsOfStrip(cluster[1]), EndsOfStrip(cluster[2]))
    ELSE EndsOfStrip(cluster[1])

\* calcPerpProj(a, c, q, r).  The vectors are integral, so that
\* fabs(denom) > 10e-7 is denom # 0.
CalcPerpProj(a, c, q, r) ==
    LET ac    == VSub(c, a)
        qr    == Dot(q, r)
        denom == Dot(q, q) - qr * qr
    IN  IF Abs(denom) > 0
        THEN Frac(Dot(ac, r) * qr - Dot(ac, q) * Dot(r, r), denom)
        ELSE Num(1)

\* SpacePointParameters::reset(): the members calculateSpacePoints reads
\* before it writes them
SpaPoPaReset == [m |-> Num(0), n |-> Num(0), limit |-> Num(1)]

\* fabs(x) > spaPoPa.limitExtended, where limitExtended is
\* limit + stripLengthGapTolerance / qmag and qmag * qmag is q.q: the square
\* root is avoided by comparing (fabs(x) - limit)^2 * q.q with the squared
\* tolerance, which is positive here
AboveLimitExtended(x, limit, gap, q) ==
    IF x = NaN THEN FALSE
    ELSE IF ~IsFin(x) THEN TRUE
    ELSE LET over == XSub(XAbs(x), limit)
         IN  /\ XGt(over, Num(0))
             /\ XGt(XMul(XMul(over, over), Num(Dot(q, q))), XMul(gap, gap))

\* a recovery that takes overshoots of m and n in opposite directions as it
\* takes those in the same direction, and moves m onto the end of its strip
RecoverSpacePoint_AnyDirection(spaPoPa, q, r, nSolved, cfg) ==
    LET gap   == cfg.stripLengthGapTolerance
        n     == IF spaPoPa.n = Num(0) THEN nSolved ELSE spaPoPa.n
        m     == spaPoPa.m
        limit == spaPoPa.limit
    IN  IF XLe(gap, Num(0)) THEN [ok |-> FALSE, m |-> m]
        ELSE IF AboveLimitExtended(m, limit, gap, q) THEN [ok |-> FALSE, m |-> m]
        ELSE IF AboveLimitExtended(n, limit, gap, q) THEN [ok |-> FALSE, m |-> m]
        ELSE IF XGt(XAbs(m), Num(1)) /\ XGt(XAbs(n), Num(1))
        THEN [ok |-> TRUE, m |-> IF XGt(m, Num(0)) THEN Num(1) ELSE Num(-1)]
        ELSE [ok |-> FALSE, m |-> m]

\* a recovery that shifts m and n as soon as one of them overshoots, the
\* other being in its regular interval or not
RecoverSpacePoint_OneSided(spaPoPa, q, r, nSolved, cfg) ==
    LET gap   == cfg.stripLengthGapTolerance
        n     == IF spaPoPa.n = Num(0) THEN nSolved ELSE spaPoPa.n
        m     == spaPoPa.m
        limit == spaPoPa.limit
        secOnFirstScale == Frac(Dot(q, r), Dot(q, q))
        mOverUp   == XSub(m, Num(1))
        nOverUp   == XMul(XSub(n, Num(1)), secOnFirstScale)
        biggerUp  == IF XGt(mOverUp, nOverUp) THEN mOverUp ELSE nOverUp
        mOverDown == XNeg(XAdd(m, Num(1)))
        nOverDown == XMul(XNeg(XAdd(n, Num(1))), secOnFirstScale)
        biggerDown == IF XGt(mOverDown, nOverDown) THEN mOverDown ELSE nOverDown
    IN  IF XLe(gap, Num(0)) THEN [ok |-> FALSE, m |-> m]
        ELSE IF AboveLimitExtended(m, limit, gap, q) THEN [ok |-> FALSE, m |-> m]
        ELSE IF AboveLimitExtended(n, limit, gap, q) THEN [ok |-> FALSE, m |-> m]
        ELSE IF XGt(m, Num(1)) \/ XGt(n, Num(1))
        THEN [ok |-> /\ XLt(XAbs(XSub(m, biggerUp)), limit)
                     /\ XLt(XAbs(XSub(n, XDiv(biggerUp, secOnFirstScale))), limit),
              m  |-> XSub(m, biggerUp)]
        ELSE IF XLt(m, Num(-1)) \/ XLt(n, Num(-1))
        THEN [ok |-> /\ XLt(XAbs(XAdd(m, biggerDown)), limit)
                     /\ XLt(XAbs(XAdd(n, XDiv(biggerDown, secOnFirstScale))), limit),
              m  |-> XAdd(m, biggerDown)]
        ELSE [ok |-> FALSE, m |-> m]

\* recoverSpacePoint(spaPoPa, cfg) for the strip vectors q and r and the
\* value nSolved of -t.qs / r.qs: [ok |-> the value returned, m |-> spaPoPa.m
\* as it leaves it]
RecoverSpacePoint(spaPoPa, q, r, nSolved, cfg) ==
    LET gap   == cfg.stripLengthGapTolerance
        n     == IF spaPoPa.n = Num(0) THEN nSolved ELSE spaPoPa.n
        m     == spaPoPa.m
        limit == spaPoPa.limit
        secOnFirstScale == Frac(Dot(q, r), Dot(q, q))
        mOverUp   == XSub(m, Num(1))
        nOverUp   == XMul(XSub(n, Num(1)), secOnFirstScale)
        biggerUp  == IF XGt(mOverUp, nOverUp) THEN mOverUp ELSE nOverUp
        mOverDown == XNeg(XAdd(m, Num(1)))
        nOverDown == XMul(XNeg(XAdd(n, Num(1))), secOnFirstScale)
        biggerDown == IF XGt(mOverDown, nOverDown) THEN mOverDown ELSE nOverDown
    IN  IF XLe(gap, Num(0)) THEN [ok |-> FALSE, m |-> m]
        ELSE IF AboveLimitExtended(m, limit, gap, q) THEN [ok |-> FALSE, m |-> m]
        ELSE IF AboveLimitExtended(n, limit, gap, q) THEN [ok |-> FALSE, m |-> m]
        ELSE IF XGt(m, Num(1)) /\ XGt(n, Num(1))
        THEN [ok |-> /\ XLt(XAbs(XSub(m, biggerUp)), limit)
                     /\ XLt(XAbs(XSub(n, XDiv(biggerUp, secOnFirstScale))), limit),
              m  |-> XSub(m, biggerUp)]
        ELSE IF XLt(m, Num(-1)) /\ XLt(n, Num(-1))
        THEN [ok |-> /\ XLt(XAbs(XAdd(m, biggerDown)), limit)
                     /\ XLt(XAbs(XAdd(n, XDiv(biggerDown, secOnFirstScale))), limit),
              m  |-> XAdd(m, biggerDown)]
        ELSE [ok |-> FALSE, m |-> m]

\* resultPerpProj as the condition of the fast skipping leaves it:
\* resultPerpProj = calcPerpProj(...) <= 0. assigns the comparison, since <=
\* binds tighter than =, so that it is 1 when lambda0 <= 0 and 0 otherwise
PerpProjResult(ends1, ends2) ==
    IF XLe(CalcPerpProj(ends1[1], ends2[1],
                        VSub(ends1[1], ends1[2]), VSub(ends2[1], ends2[2])),
           Num(0))
    THEN Num(1) ELSE Num(0)

\* spaPoPa.m = -s.rt / q.rt and the n of the same formula, -t.qs / r.qs, for
\* the strip ends ends1 and ends2 and the vertex
SolveM(ends1, ends2, vertex) ==
    LET q  == VSub(ends1[1], ends1[2])
        r  == VSub(ends2[1], ends2[2])
        s  == VSub(VAdd(ends1[1], ends1[2]), VScale(2, vertex))
        t  == VSub(VAdd(ends2[1], ends2[2]), VScale(2, vertex))
        rt == Cross(r, t)
    IN  Frac(-Dot(s, rt), Dot(q, rt))

SolveN(ends1, ends2, vertex) ==
    LET q  == VSub(ends1[1], ends1[2])
        r  == VSub(ends2[1], ends2[2])
        s  == VSub(VAdd(ends1[1], ends1[2]), VScale(2, vertex))
        t  == VSub(VAdd(ends2[1], ends2[2]), VScale(2, vertex))
        qs == Cross(q, s)
    IN  Frac(-Dot(t, qs), Dot(r, qs))

\* spaPoPa.limit once calculateSpacePoints has set it
Limit(cfg) ==
    IF SpaPoPaReset.limit = Num(1) /\ cfg.stripLengthTolerance # Num(0)
    THEN XAdd(Num(1), cfg.stripLengthTolerance)
    ELSE SpaPoPaReset.limit

\* the vertex based part of the loop body, for the candidate `hits` with
\* the strip ends ends1 and ends2: the solution for m and n, and the
\* recovery when it is not accepted
VertexSolve(hits, ends1, ends2, cfg) ==
    LET m == SolveM(ends1, ends2, cfg.vertex)
        n == SolveN(ends1, ends2, cfg.vertex)
        \* n is solved only if fabs(m) <= limit
        recovered ==
            RecoverSpacePoint([m     |-> m,
                               n     |-> IF XLe(XAbs(m), Limit(cfg))
                                         THEN n ELSE SpaPoPaReset.n,
                               limit |-> Limit(cfg)],
                              VSub(ends1[1], ends1[2]), VSub(ends2[1], ends2[2]),
                              n, cfg)
    IN  IF XLe(XAbs(m), Limit(cfg)) /\ XLe(XAbs(n), Limit(cfg))
        THEN [hits EXCEPT !.spacePoint =
                              VHalfAxpy(VAdd(ends1[1], ends1[2]), m,
                                        VSub(ends1[1], ends1[2])),
                          !.solved = TRUE]
        ELSE IF recovered.ok
        THEN [hits EXCEPT !.spacePoint =
                              VHalfAxpy(VAdd(ends1[1], ends1[2]), recovered.m,
                                        VSub(ends1[1], ends1[2])),
                          !.solved = TRUE]
        ELSE hits

\* a loop body that gives up a candidate in perpendicular projection mode
\* when lambda0 is not accepted
SolveEnds_PerpProjOnly(hits, ends1, ends2, cfg) ==
    IF cfg.usePerpProj
    THEN IF PerpProjResult(ends1, ends2) # Num(0)
         THEN [hits EXCEPT !.spacePoint =
                               VAxpy(ends1[1], PerpProjResult(ends1, ends2),
                                     VSub(ends1[1], ends1[2])),
                           !.solved = TRUE]
         ELSE hits
    ELSE VertexSolve(hits, ends1, ends2, cfg)

\* the body of the loop of calculateSpacePoints from the fast skipping on,
\* for the candidate `hits` with the strip ends ends1 and ends2
SolveEnds(hits, ends1, ends2, cfg) ==
    IF cfg.usePerpProj /\ PerpProjResult(ends1, ends2) # Num(0)
    THEN [hits EXCEPT !.spacePoint =
                          VAxpy(ends1[1], PerpProjResult(ends1, ends2),
                                VSub(ends1[1], ends1[2])),
                      !.solved = TRUE]
    ELSE VertexSolve(hits, ends1, ends2, cfg)

\* the body of the loop of calculateSpacePoints on one candidate `hits`
SolveSpacePoint(hits, cfg) ==
    IF hits.spacePoint # Zero3 THEN hits
    ELSE SolveEnds(hits, EndsOfCluster(hits.hitModuleFront),
                   EndsOfCluster(hits.hitModuleBack), cfg)

\* the action: calculateSpacePoints(spacePoints, cfg)
CalculateSpacePoints(cfg) ==
    /\ spacePoints' = [i \in 1..Len(spacePoints) |->
                           SolveSpacePoint(spacePoints[i], cfg)]
    /\ call' = [op     |-> "calculateSpacePoints",
                cfg    |-> cfg,
                before |-> [i \in 1..Len(spacePoints) |->
                               spacePoints[i].spacePoint]]

----------------------------------------------------------------------------
(* clusterSpacePoints on its own: one call, on any hit collection of up to  *)
(* MaxHits hits over any grid of up to MaxBinsX x MaxBinsY bins.            *)

\* the hits of a collection of n hits placed by `place`, a function from
\* 1..n to <<surface, binX, binY>>
HitsAt(n, place) == [i \in 1..n |-> Hit(i, place[i][1], place[i][2], place[i][3])]

Bins(s) == (0..(BinsX(s) - 1)) \X (0..(BinsY(s) - 1))

\* where a hit of a collection may lie: in any bin of surface s, or in the
\* first bin of the neighbouring module
Places(s) ==
    {<<s, b[1], b[2]>> : b \in Bins(s)}
        \cup {<<[s EXCEPT !.module = s.module + 1], 0, 0>>}

\* the ways to place n hits
Placements(s, n) == [1..n -> Places(s)]

GridShapes == {Surface("front", 1, nx, ny) : nx \in 1..MaxBinsX, ny \in 1..MaxBinsY}

\* before any call: an empty storage
Init ==
    /\ spacePoints = <<>>
    /\ call = [op |-> "none"]

\* the action: one call of clusterSpacePoints(hits, performClustering), on a
\* collection of 1..MaxHits hits
ClusterCall ==
    /\ call.op = "none"
    /\ \E s \in GridShapes, n \in 1..MaxHits, performClustering \in BOOLEAN :
         \E place \in Placements(s, n) :
           call' = [op                |-> "clusterSpacePoints",
                    hits              |-> HitsAt(n, place),
                    performClustering |-> performClustering,
                    clusters          |-> ClusterSpacePoints(HitsAt(n, place),
                                                             performClustering)]
    /\ UNCHANGED spacePoints

NextCluster == ClusterCall

SpecCluster == Init /\ [][NextCluster]_vars

----------------------------------------------------------------------------
(* addHits on its own: one call, with a strip module of ModuleStrips x 1    *)
(* bins in each layer, hit collections of up to MaxModuleHits hits in       *)
(* distinct places (some of them on the neighbouring module), in any order, *)
(* and any of the MatchConfigs.                                             *)

FrontModule == Surface("front", 1, ModuleStrips, 1)
BackModule == Surface("back", 1, ModuleStrips, 1)

\* the ways to place n hits in distinct places
DistinctPlacements(s, n) ==
    {place \in Placements(s, n) :
        \A i, j \in 1..n : i # j => place[i] # place[j]}

\* <<diffDist, diffTheta2, diffPhi2, vertex>>: all gates generous, or one tight
Gates == {<<100, 100000000, 100000000, <<0, 0, 0>> >>,
          <<100, 100000000, 100000000, <<0, 0, -8>> >>,
          <<5, 100000000, 100000000, <<0, 0, 0>> >>,
          <<100, 40000, 100000000, <<0, 0, -8>> >>,
          <<100, 100000000, 40000, <<0, 0, -8>> >>}

MatchConfigs ==
    {Config(g[1], g[2], g[3], g[4], Num(0), Num(0), FALSE, cf, cb) :
        g \in Gates, cf \in BOOLEAN, cb \in BOOLEAN}

\* the action: one call of addHits on an empty storage, on collections of
\* 0..MaxModuleHits hits
AddHitsCall ==
    /\ call.op = "none"
    /\ \E nFront \in 0..MaxModuleHits, nBack \in 0..MaxModuleHits, cfg \in MatchConfigs :
         \E placeFront \in DistinctPlacements(FrontModule, nFront),
            placeBack \in DistinctPlacements(BackModule, nBack) :
           AddHits(HitsAt(nFront, placeFront), HitsAt(nBack, placeBack), cfg)

NextMatch == AddHitsCall

SpecMatch == Init /\ [][NextMatch]_vars

----------------------------------------------------------------------------
(* The builder as it is used: addHits fills the empty storage from the hits *)
(* of the front and the back module, read out strip by strip, and           *)
(* calculateSpacePoints is called on the storage any number of times, with  *)
(* any of the SolveConfigs.                                                 *)

\* the ways to place n hits in the bins of surface s, one hit to a strip, in
\* the order of the strips
ModulePlacements(s, n) ==
    {place \in [1..n -> {<<s, b[1], b[2]>> : b \in Bins(s)}] :
        \A i \in 1..(n - 1) : place[i][2] < place[i + 1][2]}

\* the origin, a vertex below both layers and one between them
Vertices == {<<0, 0, 0>>, <<0, 0, -8>>, <<0, -2, 2>>}

\* stripLengthTolerance and stripLengthGapTolerance: off or on
StripLengthTolerances == {Num(0), Frac(1, 5), Frac(1, 4), Frac(1, 2)}
StripLengthGapTolerances == {Num(0), Num(4)}

\* generous gates, clustering on both layers
SolveConfigs ==
    {Config(100, 100000000, 100000000, v, tol, gap, perp, TRUE, TRUE) :
        v \in Vertices, tol \in StripLengthTolerances,
        gap \in StripLengthGapTolerances, perp \in BOOLEAN}

\* the configurations addHits is called with: those with the tolerances off
FillConfigs ==
    {cfg \in SolveConfigs :
        /\ cfg.stripLengthTolerance = Num(0)
        /\ cfg.stripLengthGapTolerance = Num(0)
        /\ ~cfg.usePerpProj}

Fill ==
    /\ spacePoints = <<>>
    /\ \E nFront \in 1..MaxModuleHits, nBack \in 1..MaxModuleHits, cfg \in FillConfigs :
         \E placeFront \in ModulePlacements(FrontModule, nFront),
            placeBack \in ModulePlacements(BackModule, nBack) :
           AddHits(HitsAt(nFront, placeFront), HitsAt(nBack, placeBack), cfg)

Solve == \E cfg \in SolveConfigs : CalculateSpacePoints(cfg)

Next == Fill \/ Solve

Spec == Init /\ [][Next]_vars

----------------------------------------------------------------------------
(* Properties of clusterSpacePoints *)

\* the hits at positions 1..Len(hits) all lie on the surface of the first
OneSurface(hits) == \A i \in 1..Len(hits) : hits[i].surf = hits[1].surf

DistinctBins(hits) ==
    \A i, j \in 1..Len(hits) : i # j => BinOfHit(hits[i]) # BinOfHit(hits[j])

\* two bins that share an edge
EdgeAdjacent(b1, b2) ==
    \/ b1[2] = b2[2] /\ Abs(b1[1] - b2[1]) = 1
    \/ b1[1] = b2[1] /\ Abs(b1[2] - b2[2]) = 1

ClusterSize(c) == Cardinality({k \in 1..2 : c[k] # nullptr})

\* the clusters of a cluster sequence that hold hit h
ClustersWith(clusters, h) ==
    {k \in 1..Len(clusters) : clusters[k][1] = h \/ clusters[k][2] = h}

Clustered ==
    /\ call.op = "clusterSpacePoints"
    /\ call.performClustering
    /\ OneSurface(call.hits)

\* C1: with clustering enabled on the hits of one surface, every cluster has
\* at most two hits and the two hits of a cluster lie in edge-adjacent bins
\* (never the last bin of one scan line and the first bin of the next).
C1_ClustersAdjacent ==
    Clustered =>
        \A k \in 1..Len(call.clusters) :
            LET c == call.clusters[k]
            IN  /\ ClusterSize(c) <= 2
                /\ ClusterSize(c) = 2 =>
                       EdgeAdjacent(BinOfHit(c[1]), BinOfHit(c[2]))

\* C2: with clustering enabled and two or more hits of one surface in
\* distinct bins, the clusters partition the hits: every hit is in exactly
\* one cluster and no cluster is emitted twice.
C2_ClustersPartition ==
    (Clustered /\ Len(call.hits) >= 2 /\ DistinctBins(call.hits)) =>
        /\ \A i \in 1..Len(call.hits) :
               Cardinality(ClustersWith(call.clusters, call.hits[i])) = 1
        /\ \A k, l \in 1..Len(call.clusters) :
               k # l => call.clusters[k] # call.clusters[l]

----------------------------------------------------------------------------
(* Properties of addHits *)

\* the call was addHits on two collections that are not empty
Matched == call.op = "addHits" /\ call.hitsFront # <<>> /\ call.hitsBack # <<>>

\* the candidates the call appended
Appended == Len(spacePoints) - call.before

\* the three gates between a front and a back cluster, from the positions of
\* the clusters and the angles about the vertex
Separation2(f, b) ==
    LET d == VSub(ClusterPoint(f), ClusterPoint(b))
    IN  Dot(d, d)

DiffTheta2(f, b, cfg) ==
    LET d == Theta(VSub(ClusterPoint(f), cfg.vertex))
                 - Theta(VSub(ClusterPoint(b), cfg.vertex))
    IN  d * d

DiffPhi2(f, b, cfg) ==
    LET d == Phi(VSub(ClusterPoint(f), cfg.vertex))
                 - Phi(VSub(ClusterPoint(b), cfg.vertex))
    IN  d * d

Passes(f, b, cfg) ==
    /\ cfg.diffDist >= 0
    /\ Separation2(f, b) <= cfg.diffDist * cfg.diffDist
    /\ DiffTheta2(f, b, cfg) <= cfg.diffTheta2
    /\ DiffPhi2(f, b, cfg) <= cfg.diffPhi2

Score(f, b, cfg) == DiffTheta2(f, b, cfg) + DiffPhi2(f, b, cfg)

\* the front clusters of the call that some back cluster passes
MatchedFront ==
    {k \in 1..Len(call.clustersFront) :
        \E j \in 1..Len(call.clustersBack) :
            Passes(call.clustersFront[k], call.clustersBack[j], call.cfg)}

\* C3: two front hits in adjacent bins of one surface, one back hit,
\* clustering enabled, the vertex at the origin and gates that every pair
\* passes: the front hits form one 2-hit cluster and exactly one candidate is
\* appended.
C3_EndToEnd ==
    (/\ Matched
     /\ Len(call.hitsFront) = 2
     /\ OneSurface(call.hitsFront)
     /\ EdgeAdjacent(BinOfHit(call.hitsFront[1]), BinOfHit(call.hitsFront[2]))
     /\ Len(call.hitsBack) = 1
     /\ call.cfg.clusterFrontHits
     /\ call.cfg.vertex = <<0, 0, 0>>
     /\ \A h \in 1..2 :
            Passes(<<call.hitsFront[h], nullptr>>, <<call.hitsBack[1], nullptr>>,
                   call.cfg)
     /\ Passes(<<call.hitsFront[1], call.hitsFront[2]>>,
               <<call.hitsBack[1], nullptr>>, call.cfg))
        => /\ Len(call.clustersFront) = 1
           /\ ClusterSize(call.clustersFront[1]) = 2
           /\ Appended = 1

\* a collection of two or more hits of more than one surface
MixedSurfaces(hits) == Len(hits) >= 2 /\ ~OneSurface(hits)

\* C7 as the code has it: a collection of two or more hits of more than one
\* surface yields no cluster when its clustering flag is set, and addHits
\* then appends no candidate; when the flag is not set the surfaces are not
\* compared and every hit is a cluster of its own.
C7_MixedSurfaces ==
    Matched =>
        /\ (MixedSurfaces(call.hitsFront) /\ call.cfg.clusterFrontHits)
               => call.clustersFront = <<>> /\ Appended = 0
        /\ (MixedSurfaces(call.hitsFront) /\ ~call.cfg.clusterFrontHits)
               => /\ Len(call.clustersFront) = Len(call.hitsFront)
                  /\ \A i \in 1..Len(call.hitsFront) :
                         call.clustersFront[i] = <<call.hitsFront[i], nullptr>>
        /\ (MixedSurfaces(call.hitsBack) /\ call.cfg.clusterBackHits)
               => call.clustersBack = <<>> /\ Appended = 0
        /\ (/\ MixedSurfaces(call.hitsBack)
            /\ ~call.cfg.clusterBackHits
            /\ call.clustersFront # <<>>)
               => /\ Len(call.clustersBack) = Len(call.hitsBack)
                  /\ \A i \in 1..Len(call.hitsBack) :
                         call.clustersBack[i] = <<call.hitsBack[i], nullptr>>

\* a front collection of two surfaces, clustered, is given up
C7_Witness ==
    /\ Matched
    /\ MixedSurfaces(call.hitsFront)
    /\ call.cfg.clusterFrontHits
    /\ call.clustersFront = <<>>
    /\ Appended = 0

\* C7 as it is stated: a collection of two or more hits of more than one
\* surface yields no cluster for either value of the clustering flag, and
\* addHits appends no candidate.
C7_EitherFlag ==
    Matched =>
        /\ MixedSurfaces(call.hitsFront)
               => call.clustersFront = <<>> /\ Appended = 0
        /\ MixedSurfaces(call.hitsBack)
               => call.clustersBack = <<>> /\ Appended = 0

\* C8: addHits appends one candidate for every front cluster that some back
\* cluster passes (distance, then theta, then phi) and none for the others,
\* in the order of the front clusters; the back cluster of a candidate passes
\* the three gates, so that its distance is within diffDist, and no passing
\* back cluster has a smaller score.
C8_ClosestPassingBack ==
    (Matched /\ call.before = 0) =>
        LET front   == call.clustersFront
            back    == call.clustersBack
            matched == MatchedFront
        IN  /\ Len(spacePoints) = Cardinality(matched)
            /\ \A i \in 1..Len(spacePoints) :
                   \E k \in matched :
                       /\ Cardinality({l \in matched : l <= k}) = i
                       /\ spacePoints[i].hitModuleFront = front[k]
                       /\ \E j \in 1..Len(back) :
                              /\ spacePoints[i].hitModuleBack = back[j]
                              /\ Passes(front[k], back[j], call.cfg)
                              /\ Separation2(front[k], back[j])
                                     <= call.cfg.diffDist * call.cfg.diffDist
                              /\ \A j2 \in 1..Len(back) :
                                     Passes(front[k], back[j2], call.cfg)
                                         => Score(front[k], back[j], call.cfg)
                                                <= Score(front[k], back[j2], call.cfg)

\* two front clusters are paired with the same back cluster, of two back
\* clusters, and a third front or back cluster fails a gate
C8_Witness ==
    /\ Matched
    /\ Len(call.clustersBack) >= 2
    /\ Len(spacePoints) = 2
    /\ spacePoints[1].hitModuleFront # spacePoints[2].hitModuleFront
    /\ spacePoints[1].hitModuleBack = spacePoints[2].hitModuleBack
    /\ \E k \in 1..Len(call.clustersFront), j \in 1..Len(call.clustersBack) :
           ~Passes(call.clustersFront[k], call.clustersBack[j], call.cfg)

----------------------------------------------------------------------------
(* Properties of calculateSpacePoints *)

\* the call was calculateSpacePoints
Calculated == call.op = "calculateSpacePoints"

\* the candidates the call found without a position
Unset == {i \in 1..Len(spacePoints) : Calculated /\ call.before[i] = Zero3}

\* the top end a and the bottom end b of the front cluster, q = a - b
FrontA(sp) == EndsOfCluster(sp.hitModuleFront)[1]
FrontB(sp) == EndsOfCluster(sp.hitModuleFront)[2]
FrontQ(sp) == VSub(FrontA(sp), FrontB(sp))
BackR(sp) ==
    VSub(EndsOfCluster(sp.hitModuleBack)[1], EndsOfCluster(sp.hitModuleBack)[2])

\* what calcPerpProj returns for the candidate
Lambda(sp) ==
    CalcPerpProj(FrontA(sp), EndsOfCluster(sp.hitModuleBack)[1], FrontQ(sp), BackR(sp))

\* the solved parameters of the candidate
ParamM(sp, cfg) ==
    SolveM(EndsOfCluster(sp.hitModuleFront), EndsOfCluster(sp.hitModuleBack),
           cfg.vertex)
ParamN(sp, cfg) ==
    SolveN(EndsOfCluster(sp.hitModuleFront), EndsOfCluster(sp.hitModuleBack),
           cfg.vertex)

\* the m of a position p on the line of the front strip:
\* (2p - a - b).q / q.q
StripParam(sp) ==
    LET w == [k \in 1..3 |->
                 XSub(XMul(Num(2), sp.spacePoint[k]),
                      Num(FrontA(sp)[k] + FrontB(sp)[k]))]
        q == FrontQ(sp)
    IN  XDiv(XAdd(XAdd(XMul(w[1], Num(q[1])), XMul(w[2], Num(q[2]))),
                  XMul(w[3], Num(q[3]))),
             Num(Dot(q, q)))

\* the position is 1/2 (a + b + m q) for an m with |m| <= limit
OnFrontStrip(sp, limit) ==
    /\ sp.spacePoint =
           VHalfAxpy(VAdd(FrontA(sp), FrontB(sp)), StripParam(sp), FrontQ(sp))
    /\ XLe(XAbs(StripParam(sp)), limit)

\* C4: in perpendicular projection mode a candidate without a position for
\* which calcPerpProj returns lambda <= 0 gets the position a + lambda * q.
C4_PerpProjPosition ==
    (Calculated /\ call.cfg.usePerpProj) =>
        \A i \in Unset :
            XLe(Lambda(spacePoints[i]), Num(0)) =>
                spacePoints[i].spacePoint =
                    VAxpy(FrontA(spacePoints[i]), Lambda(spacePoints[i]),
                          FrontQ(spacePoints[i]))

SameDirectionOvershoot(sp, cfg) ==
    LET m == ParamM(sp, cfg)
        n == ParamN(sp, cfg)
    IN  /\ \/ XGt(m, Num(1)) /\ XGt(n, Num(1))
           \/ XLt(m, Num(-1)) /\ XLt(n, Num(-1))
        /\ ~AboveLimitExtended(m, Limit(cfg), cfg.stripLengthGapTolerance, FrontQ(sp))
        /\ ~AboveLimitExtended(n, Limit(cfg), cfg.stripLengthGapTolerance, FrontQ(sp))

\* C6: in vertex based mode with stripLengthTolerance = 0 (limit 1) and a
\* positive stripLengthGapTolerance, a candidate without a position whose m
\* and n overshoot in the same direction within limitExtended is recovered:
\* it gets the position 1/2 (a + b + m q) of an m with |m| < 1.
C6_SameDirectionRecovered ==
    (/\ Calculated
     /\ ~call.cfg.usePerpProj
     /\ call.cfg.stripLengthTolerance = Num(0)
     /\ XGt(call.cfg.stripLengthGapTolerance, Num(0))) =>
        \A i \in Unset :
            SameDirectionOvershoot(spacePoints[i], call.cfg) =>
                /\ spacePoints[i].solved
                /\ OnFrontStrip(spacePoints[i], Num(1))
                /\ XLt(XAbs(StripParam(spacePoints[i])), Num(1))

\* C9: after calculateSpacePoints, in either mode, a candidate the call found
\* without a position is still without one or has the position
\* 1/2 (a + b + m q) of an m with |m| <= 1 + stripLengthTolerance.
C9_OnFrontStrip ==
    Calculated =>
        \A i \in Unset :
            \/ spacePoints[i].spacePoint = Zero3
            \/ OnFrontStrip(spacePoints[i],
                            XAdd(Num(1), call.cfg.stripLengthTolerance))

\* C10: a candidate is written at most once: once a calculateSpacePoints call
\* has stored a position in it, be it the origin, no step changes the
\* position.
C10_WrittenOnce ==
    [][\A i \in 1..Len(spacePoints) :
           spacePoints[i].solved =>
               spacePoints'[i].spacePoint = spacePoints[i].spacePoint]_vars

\* what recoverSpacePoint returns for the candidate when calculateSpacePoints
\* calls it: n is solved before the call only if fabs(m) <= limit
Recovery(sp, cfg) ==
    RecoverSpacePoint([m     |-> ParamM(sp, cfg),
                       n     |-> IF XLe(XAbs(ParamM(sp, cfg)), Limit(cfg))
                                 THEN ParamN(sp, cfg) ELSE SpaPoPaReset.n,
                       limit |-> Limit(cfg)],
                      FrontQ(sp), BackR(sp), ParamN(sp, cfg), cfg)

\* m and n within the limit: the solution is accepted without recovery
WithinLimit(sp, cfg) ==
    /\ XLe(XAbs(ParamM(sp, cfg)), Limit(cfg))
    /\ XLe(XAbs(ParamN(sp, cfg)), Limit(cfg))

\* one of m and n above 1 and the other below -1
OppositeOvershoot(sp, cfg) ==
    LET m == ParamM(sp, cfg)
        n == ParamN(sp, cfg)
    IN  \/ XGt(m, Num(1)) /\ XLt(n, Num(-1))
        \/ XLt(m, Num(-1)) /\ XGt(n, Num(1))

\* C11 as the code has it: in vertex based mode a candidate without a
\* position whose m and n overshoot in opposite directions, and are not both
\* within limit = 1 + stripLengthTolerance, is not recovered, whatever
\* stripLengthGapTolerance is: recoverSpacePoint returns false and the
\* position stays unset.
C11_OppositeNotRecovered ==
    (Calculated /\ ~call.cfg.usePerpProj) =>
        \A i \in Unset :
            (/\ OppositeOvershoot(spacePoints[i], call.cfg)
             /\ ~WithinLimit(spacePoints[i], call.cfg)) =>
                /\ ~Recovery(spacePoints[i], call.cfg).ok
                /\ spacePoints[i].spacePoint = Zero3

\* a candidate with m above the limit and n below -1, both within
\* limitExtended of a positive stripLengthGapTolerance, stayed unset
C11_Witness ==
    /\ Calculated
    /\ ~call.cfg.usePerpProj
    /\ XGt(call.cfg.stripLengthGapTolerance, Num(0))
    /\ \E i \in Unset :
           /\ OppositeOvershoot(spacePoints[i], call.cfg)
           /\ XGt(XAbs(ParamM(spacePoints[i], call.cfg)), Limit(call.cfg))
           /\ ~AboveLimitExtended(ParamM(spacePoints[i], call.cfg), Limit(call.cfg),
                                  call.cfg.stripLengthGapTolerance,
                                  FrontQ(spacePoints[i]))
           /\ ~AboveLimitExtended(ParamN(spacePoints[i], call.cfg), Limit(call.cfg),
                                  call.cfg.stripLengthGapTolerance,
                                  FrontQ(spacePoints[i]))
           /\ spacePoints[i].spacePoint = Zero3

\* C11 as it is stated: in vertex based mode a candidate without a position
\* whose m and n overshoot in opposite directions (one above 1, the other
\* below -1) keeps no position, whatever the configuration is.
C11_OppositeStaysUnset ==
    (Calculated /\ ~call.cfg.usePerpProj) =>
        \A i \in Unset :
            OppositeOvershoot(spacePoints[i], call.cfg) =>
                /\ spacePoints[i].spacePoint = Zero3

\* exactly one of |m| and |n| is at most bound
ExactlyOneWithin(sp, cfg, bound) ==
    XLe(XAbs(ParamM(sp, cfg)), bound) # XLe(XAbs(ParamN(sp, cfg)), bound)

----------------------------------------------------------------------------
(* Further properties of clusterSpacePoints *)

\* C13: when clustering is disabled, or when the input holds exactly one hit
\* (with clustering enabled or not), clusterSpacePoints returns one cluster
\* per input hit, in the order of the input, each with that hit as its
\* primary and no secondary.
C13_OneClusterPerHit ==
    (/\ call.op = "clusterSpacePoints"
     /\ ~call.performClustering \/ Len(call.hits) = 1) =>
        /\ Len(call.clusters) = Len(call.hits)
        /\ \A i \in 1..Len(call.hits) :
               call.clusters[i] = <<call.hits[i], nullptr>>

\* clustering was disabled on a collection with two hits in one bin, which
\* both got their cluster
C13_Witness ==
    /\ call.op = "clusterSpacePoints"
    /\ ~call.performClustering
    /\ \E i, j \in 1..Len(call.hits) :
           /\ i < j
           /\ call.hits[i].surf = call.hits[j].surf
           /\ BinOfHit(call.hits[i]) = BinOfHit(call.hits[j])
           /\ call.clusters[i] = <<call.hits[i], nullptr>>
           /\ call.clusters[j] = <<call.hits[j], nullptr>>

\* C14: with clustering enabled on the hits of one surface, no hit of the
\* matrix of sortHits (the last input hit of every occupied bin) is lost by
\* the scan: each is a member of at least one returned cluster, and every
\* returned cluster has a primary hit.
C14_NoGridHitLost ==
    Clustered =>
        /\ \A b \in DOMAIN SortHits(call.hits) :
               SortHits(call.hits)[b] # nullptr =>
                   ClustersWith(call.clusters, SortHits(call.hits)[b]) # {}
        /\ \A k \in 1..Len(call.clusters) : call.clusters[k][1] # nullptr

\* clustering was enabled on hits of one surface that occupy two bins or
\* more, one of them with two hits, and the last bin of the scan
C14_Witness ==
    /\ Clustered
    /\ \E i, j \in 1..Len(call.hits) :
           i < j /\ BinOfHit(call.hits[i]) = BinOfHit(call.hits[j])
    /\ \E i, j \in 1..Len(call.hits) :
           BinOfHit(call.hits[i]) # BinOfHit(call.hits[j])
    /\ \E i \in 1..Len(call.hits) :
           /\ BinOfHit(call.hits[i]) =
                  <<BinsX(call.hits[1].surf) - 1, BinsY(call.hits[1].surf) - 1>>
           /\ ClustersWith(call.clusters, call.hits[i]) # {}

============================================================================
